---- MODULE Spec2Model ----
(***************************************************************************)
(* Selection and voxel-grid geometry of the voxel editor's renderer        *)
(* (src/src/renderer.rs): grid snapping, the cursor / drag-rectangle       *)
(* controller held in Renderer, cuboid vertex generation and the voxel     *)
(* grid mesh.                                                              *)
(*                                                                         *)
(* Number representation.  Every f32 of the program is represented by the  *)
(* integer Scale * v, i.e. in tenths: 2.4 is 24, the unit vector component *)
(* 1.0 is 10, the colour channel 0.2 is 2.  All arithmetic the modelled    *)
(* code performs on these values (+, -, min, max, floor, ceil) is exact on *)
(* this representation.                                                    *)
(***************************************************************************)
EXTENDS Integers, Sequences, FiniteSets, TLC

Scale == 10

(***************************************************************************)
(* Colours (renderer.rs lines 10-14), RGBA in tenths.                      *)
(***************************************************************************)
RED == <<10, 0, 0, 10>>
HALF_ALPHA_RED == <<10, 0, 0, 2>>
GREEN == <<0, 10, 0, 10>>
BLUE == <<0, 0, 10, 10>>
TRANSPARENT == <<0, 0, 0, 0>>

DEFAULT_MESH_COUNT == 16

(***************************************************************************)
(* u16: values 0 .. U16_MODULUS - 1.  The cast `as u16` of a usize keeps   *)
(* the low 16 bits.                                                        *)
(***************************************************************************)
U16_MODULUS == 65536

as_u16(x) == x % U16_MODULUS

(***************************************************************************)
(* Option<T>: None is the empty tuple, Some(x) the one-element tuple.       *)
(***************************************************************************)
None == <<>>

Some(x) == <<x>>

unwrap(opt) == opt[1]

(***************************************************************************)
(* cgmath::Vector3<f32> as a 3-tuple.                                      *)
(***************************************************************************)
Vector3_new(x, y, z) == <<x, y, z>>

VAdd(a, b) == <<a[1] + b[1], a[2] + b[2], a[3] + b[3]>>

VSub(a, b) == <<a[1] - b[1], a[2] - b[2], a[3] - b[3]>>

Min2(a, b) == IF a <= b THEN a ELSE b

Max2(a, b) == IF a >= b THEN a ELSE b

(***************************************************************************)
(* f32::floor and f32::ceil on the fixed-point representation.  \div       *)
(* rounds towards minus infinity.                                          *)
(***************************************************************************)
floor(x) == (x \div Scale) * Scale

ceil(x) == (0 - ((0 - x) \div Scale)) * Scale

(***************************************************************************)
(* geometry::Plane (the FaceBasis of the specification): a normal and two  *)
(* in-plane axes, mutually orthogonal axis-aligned unit vectors.           *)
(***************************************************************************)
Plane_new(normal, left, down) == [normal |-> normal, left |-> left, down |-> down]

XY_PLANE == Plane_new(<<0, 0, Scale>>, <<Scale, 0, 0>>, <<0, 0 - Scale, 0>>)

XZ_PLANE == Plane_new(<<0, 0 - Scale, 0>>, <<0 - Scale, 0, 0>>, <<0, 0, Scale>>)

(***************************************************************************)
(* geometry::Cuboid: origin, signed extents, colour.                       *)
(***************************************************************************)
Cuboid_new(origin, extents, color) ==
    [origin |-> origin, extents |-> extents, color |-> color]

(***************************************************************************)
(* Cuboid::corner_points: corner k is origin + extents (.) mask(k), with   *)
(* the standard cube corner numbering: 0..3 around the face through the    *)
(* origin, 4..7 the same loop displaced along the third axis.              *)
(***************************************************************************)
CornerMask ==
    << <<0, 0, 0>>, <<1, 0, 0>>, <<1, 1, 0>>, <<0, 1, 0>>,
       <<0, 0, 1>>, <<1, 0, 1>>, <<1, 1, 1>>, <<0, 1, 1>> >>

corner_points(self) ==
    [k \in 1..8 |->
        <<self.origin[1] + self.extents[1] * CornerMask[k][1],
          self.origin[2] + self.extents[2] * CornerMask[k][2],
          self.origin[3] + self.extents[3] * CornerMask[k][3]>>]

(***************************************************************************)
(* Cuboid::containing_cube: running componentwise min and max over the 16  *)
(* corner points of self and other; origin = min, extents = max - min.     *)
(* The colour of the result is one of the operands' colours; which one is  *)
(* not fixed by the specification (both are HALF_ALPHA_RED at the only     *)
(* call site, renderer.rs line 562).                                       *)
(***************************************************************************)
VMin(p, q) == <<Min2(p[1], q[1]), Min2(p[2], q[2]), Min2(p[3], q[3])>>

VMax(p, q) == <<Max2(p[1], q[1]), Max2(p[2], q[2]), Max2(p[3], q[3])>>

RECURSIVE FoldMin(_, _)
FoldMin(pts, n) ==
    IF n = 1 THEN pts[1] ELSE VMin(FoldMin(pts, n - 1), pts[n])

RECURSIVE FoldMax(_, _)
FoldMax(pts, n) ==
    IF n = 1 THEN pts[1] ELSE VMax(FoldMax(pts, n - 1), pts[n])

\* faulty variant: the corners of self are taken twice, other is ignored
containing_cube_ignores_other(self, other) ==
    LET pts == corner_points(self) \o corner_points(self)
        lo == FoldMin(pts, Len(pts))
        hi == FoldMax(pts, Len(pts))
    IN  Cuboid_new(lo, VSub(hi, lo), CHOOSE c \in {self.color, other.color} : TRUE)

\* faulty variant: the result always carries the receiver's colour
containing_cube_receiver_color(self, other) ==
    LET pts == corner_points(self) \o corner_points(other)
        lo == FoldMin(pts, Len(pts))
        hi == FoldMax(pts, Len(pts))
    IN  Cuboid_new(lo, VSub(hi, lo), self.color)

containing_cube(self, other) ==
    LET pts == corner_points(self) \o corner_points(other)
        lo == FoldMin(pts, Len(pts))
        hi == FoldMax(pts, Len(pts))
    IN  Cuboid_new(lo, VSub(hi, lo), CHOOSE c \in {self.color, other.color} : TRUE)

(***************************************************************************)
(* vertex (lines 36-41): position extended by w = 1.0, colour copied.      *)
(***************************************************************************)
vertex(pos, col) ==
    [pos |-> <<pos[1], pos[2], pos[3], Scale>>,
     col |-> <<col[1], col[2], col[3], col[4]>>]

white_vertex(pos) == vertex(pos, <<Scale, Scale, Scale, Scale>>)

(***************************************************************************)
(* generate_mesh_vertices (lines 43-111).  Every push of a vertex is       *)
(* followed by the push of (vertex_data.len() - 1) as u16, so the k-th     *)
(* index is the low 16 bits of k - 1.                                      *)
(*                                                                         *)
(* The loop runs i over 1..(meshes + 1), the sum taken in u16.  When it    *)
(* exceeds the type, a build with overflow checks (the debug profile)      *)
(* panics and a build without them (the release profile) wraps to 0, which *)
(* makes the range empty; overflow_checks selects the build.               *)
(***************************************************************************)
\* the feature flag of line 103 (off in the default build)
debug_ray == FALSE

\* the six axis vertices, lines 48-64
mesh_axis_vertices(mesh_count) ==
    << vertex(<<0, 0, 0>>, RED),   vertex(<<mesh_count, 0, 0>>, RED),
       vertex(<<0, 0, 0>>, GREEN), vertex(<<0, mesh_count, 0>>, GREEN),
       vertex(<<0, 0, 0>>, BLUE),  vertex(<<0, 0, mesh_count>>, BLUE) >>

\* the j-th (0..11) vertex pushed by loop iteration i, lines 68-99
mesh_loop_vertex(mesh_count, i, j) ==
    LET fi == i * Scale
    IN  white_vertex(
            CASE j = 0  -> <<0, fi, 0>>
              [] j = 1  -> <<mesh_count, fi, 0>>
              [] j = 2  -> <<fi, 0, 0>>
              [] j = 3  -> <<fi, mesh_count, 0>>
              [] j = 4  -> <<0, fi, 0>>
              [] j = 5  -> <<0, fi, mesh_count>>
              [] j = 6  -> <<0, 0, fi>>
              [] j = 7  -> <<0, mesh_count, fi>>
              [] j = 8  -> <<fi, 0, 0>>
              [] j = 9  -> <<fi, 0, mesh_count>>
              [] j = 10 -> <<0, 0, fi>>
              [] j = 11 -> <<mesh_count, 0, fi>>)

\* the vertices pushed by `for i in 1..bound`, in push order
mesh_loop_vertices(mesh_count, bound) ==
    IF bound <= 1 THEN <<>>
    ELSE [k \in 1..(12 * (bound - 1)) |->
             mesh_loop_vertex(mesh_count, ((k - 1) \div 12) + 1, (k - 1) % 12)]

\* lines 103-108
mesh_debug_vertices ==
    IF debug_ray
    THEN << vertex(<<0, 0, 0>>, TRANSPARENT), vertex(<<0, 0, 0>>, TRANSPARENT) >>
    ELSE <<>>

mesh_result(vertex_data) ==
    [status   |-> "Ok",
     vertices |-> vertex_data,
     indices  |-> [k \in 1..Len(vertex_data) |-> as_u16(k - 1)]]

Panic == [status |-> "Panic", vertices |-> <<>>, indices |-> <<>>]

generate_mesh_vertices(meshes, overflow_checks) ==
    LET mesh_count == meshes * Scale
    IN  IF meshes + 1 >= U16_MODULUS /\ overflow_checks
        THEN Panic
        ELSE mesh_result(mesh_axis_vertices(mesh_count)
                         \o mesh_loop_vertices(mesh_count, as_u16(meshes + 1))
                         \o mesh_debug_vertices)

(***************************************************************************)
(* Cuboid::vertices (lines 138-176): 24 vertices, the corner pushed at     *)
(* each position in source order.                                          *)
(***************************************************************************)
\* faulty variant: the third face lists its first two corners the other way round
FaceCorners_third_face_swapped ==
    <<0, 1, 2, 3,   1, 0, 4, 5,   1, 2, 5, 6,
      3, 2, 6, 7,   3, 0, 4, 7,   4, 5, 6, 7>>

FaceCorners ==
    <<0, 1, 2, 3,   1, 0, 4, 5,   2, 1, 5, 6,
      3, 2, 6, 7,   3, 0, 4, 7,   4, 5, 6, 7>>

Cuboid_vertices(self) ==
    LET cp == corner_points(self)
    IN  [i \in 1..24 |-> vertex(cp[FaceCorners[i] + 1], self.color)]

(***************************************************************************)
(* generate_cursor_vertices (lines 200-208): the cuboid's vertices and the *)
(* literal index list, two triangles per face.                             *)
(***************************************************************************)
generate_cursor_vertices(cuboid) ==
    [vertices |-> Cuboid_vertices(cuboid),
     indices  |-> << 0,  1,  2,  2,  3,  0,
                     4,  5,  6,  6,  7,  4,
                     8,  9, 10, 10, 11,  8,
                    12, 13, 14, 14, 15, 12,
                    16, 17, 18, 18, 19, 16,
                    20, 21, 22, 22, 23, 20>>]

(***************************************************************************)
(* Renderer::get_grid_pos (lines 522-526).                                 *)
(***************************************************************************)
\* faulty variant: every axis is rounded down
get_grid_pos_floor_all(world_pos) ==
    Vector3_new(floor(world_pos[1]), floor(world_pos[2]), floor(world_pos[3]))

get_grid_pos(world_pos) ==
    Vector3_new(floor(world_pos[1]), ceil(world_pos[2]), ceil(world_pos[3]))

(***************************************************************************)
(* Inputs of the controller: the raycast positions and face bases handed   *)
(* to update_cursor_pos / update_draw_rectangle.                           *)
(***************************************************************************)
HitPositions == { <<24, 11, 39>>, <<-5, 0, -15>>, <<0, 20, 0>> }

HitPlanes == { XY_PLANE, XZ_PLANE }

PlaneArgs == {None} \cup {Some(p) : p \in HitPlanes}

(***************************************************************************)
(* voxel_manager::VoxelManager: a cube of side extent of optional cube     *)
(* descriptors, addressed cubes[x][y][z] (renderer.rs line 185).           *)
(* VoxelManager::new(extent) starts with every slot empty.                 *)
(***************************************************************************)
CubeDesc(color) == [color |-> color]

VoxelManager_new(extent) ==
    [extent |-> extent,
     cubes  |-> [x \in 0..(extent - 1) |->
                    [y \in 0..(extent - 1) |-> [z \in 0..(extent - 1) |-> None]]]]

Ok(value) == [status |-> "Ok", value |-> value]

OutOfBounds == [status |-> "OutOfBounds", value |-> <<>>]

(***************************************************************************)
(* VoxelManager set / clear / get: bounds-checked; an index at or beyond   *)
(* extent on any axis is rejected with OutOfBounds and the grid is left    *)
(* as it was.  Each yields [vm |-> grid afterwards, ret |-> result].       *)
(***************************************************************************)
index_ok(self, x, y, z) == x < self.extent /\ y < self.extent /\ z < self.extent

index_ok_first_axis(self, x, y, z) == x < self.extent

VoxelManager_set_unchecked_yz(self, x, y, z, color) ==
    IF index_ok_first_axis(self, x, y, z)
    THEN [vm  |-> [self EXCEPT !.cubes[x % self.extent][y % self.extent][z % self.extent] =
                                    Some(CubeDesc(color))],
          ret |-> Ok(<<>>)]
    ELSE [vm |-> self, ret |-> OutOfBounds]

VoxelManager_set(self, x, y, z, color) ==
    IF index_ok(self, x, y, z)
    THEN [vm  |-> [self EXCEPT !.cubes[x][y][z] = Some(CubeDesc(color))],
          ret |-> Ok(<<>>)]
    ELSE [vm |-> self, ret |-> OutOfBounds]

VoxelManager_clear(self, x, y, z) ==
    IF index_ok(self, x, y, z)
    THEN [vm  |-> [self EXCEPT !.cubes[x][y][z] = None],
          ret |-> Ok(<<>>)]
    ELSE [vm |-> self, ret |-> OutOfBounds]

VoxelManager_get(self, x, y, z) ==
    IF index_ok(self, x, y, z)
    THEN [vm  |-> self,
          ret |-> Ok(IF self.cubes[x][y][z] # None
                     THEN Some(unwrap(self.cubes[x][y][z]).color)
                     ELSE None)]
    ELSE [vm |-> self, ret |-> OutOfBounds]

(***************************************************************************)
(* VoxelManager::vertices (lines 178-198): x, y, z loops over 0..extent,   *)
(* appending the vertices of a unit cuboid for every occupied slot: the    *)
(* result is the slots' contributions concatenated in visiting order.      *)
(* from_z is the first z visited (0 in the source).                        *)
(***************************************************************************)
RECURSIVE vertices_loop_z(_, _, _, _)
vertices_loop_z(self, x, y, z) ==
    IF z >= self.extent THEN <<>>
    ELSE (IF self.cubes[x][y][z] # None
          THEN Cuboid_vertices(Cuboid_new(Vector3_new(x * Scale, y * Scale, z * Scale),
                                          Vector3_new(Scale, Scale, Scale),
                                          unwrap(self.cubes[x][y][z]).color))
          ELSE <<>>)
         \o vertices_loop_z(self, x, y, z + 1)

RECURSIVE vertices_loop_y(_, _, _, _)
vertices_loop_y(self, x, y, from_z) ==
    IF y >= self.extent THEN <<>>
    ELSE vertices_loop_z(self, x, y, from_z) \o vertices_loop_y(self, x, y + 1, from_z)

RECURSIVE vertices_loop_x(_, _, _)
vertices_loop_x(self, x, from_z) ==
    IF x >= self.extent THEN <<>>
    ELSE vertices_loop_y(self, x, 0, from_z) \o vertices_loop_x(self, x + 1, from_z)

\* faulty variant: the innermost loop starts at 1
VoxelManager_vertices_skip_first(self) == vertices_loop_x(self, 0, 1)

VoxelManager_vertices(self) == vertices_loop_x(self, 0, 0)

(***************************************************************************)
(* Bounds of the voxel grid model: the grid extents tried, the indices     *)
(* passed (unsigned; the largest is out of range for every grid tried),    *)
(* and the number of voxels a grid may hold at once.                       *)
(***************************************************************************)
GridExtents == {0, 1, 2}

Indices == {0, 1, 2}

MaxPresent == 2

VoxelColors == {RED, GREEN}

present_count(self) ==
    Cardinality({idx \in (0..(self.extent - 1)) \X (0..(self.extent - 1)) \X (0..(self.extent - 1)) :
                    self.cubes[idx[1]][idx[2]][idx[3]] # None})

(***************************************************************************)
(* Bounds of the get_grid_pos inputs: coordinates in tenths.               *)
(***************************************************************************)
MaxPos == 12

SnapInputs ==
    ((0 - MaxPos)..MaxPos) \X ((0 - MaxPos)..MaxPos) \X ((0 - MaxPos)..MaxPos)
        \cup {<<24, 11, 39>>}

(***************************************************************************)
(* Bounds of the containing_cube inputs: the receiver sits at the origin   *)
(* with signed extents, the argument at an offset with signed extents,     *)
(* in whole units; the colours may differ.                                 *)
(***************************************************************************)
MaxLen == 1

Lengths == {k * Scale : k \in (0 - MaxLen)..MaxLen}

Offsets == {0, MaxLen * Scale}

ReceiverBoxes ==
    {Cuboid_new(<<0, 0, 0>>, e, HALF_ALPHA_RED) : e \in Lengths \X Lengths \X Lengths}

ArgumentBoxes ==
    {Cuboid_new(o, e, c) : o \in Offsets \X Offsets \X Offsets,
                           e \in Lengths \X Lengths \X Lengths,
                           c \in {HALF_ALPHA_RED, GREEN}}

ScenarioAnchor == Cuboid_new(<<0, 0, 0>>, <<Scale, Scale, Scale>>, HALF_ALPHA_RED)

ScenarioEnd == Cuboid_new(<<2 * Scale, 2 * Scale, 2 * Scale>>, <<Scale, Scale, Scale>>, HALF_ALPHA_RED)

BoxPairs == (ReceiverBoxes \X ArgumentBoxes) \cup {<<ScenarioAnchor, ScenarioEnd>>}

(***************************************************************************)
(* Bounds of the generate_mesh_vertices inputs: every count up to          *)
(* MaxMeshes, the default, the largest count whose indices all fit u16     *)
(* (6 + 12 * 5460 = 65526), and the largest u16.                           *)
(***************************************************************************)
MaxMeshes == 60

MeshCounts == (0..MaxMeshes) \cup {DEFAULT_MESH_COUNT, 5460, U16_MODULUS - 1}

VARIABLES
    render_cursor,      \* Renderer.render_cursor
    cursor_cube,        \* Renderer.cursor_cube
    draw_cube,          \* Renderer.draw_cube : Option<Cuboid>
    cursor_vertex_buf,  \* contents of Renderer.cursor_pipeline.vertex_buf
    frame,              \* pipelines drawn by the most recent render()
    last_call,          \* name of the most recent Renderer method called
    last_update,        \* Option<(pos, plane)>: arguments of the most recent update
    end_cube,           \* end_cube built by the most recent drag hit
    drag_anchor,        \* cursor_cube read by the most recent drag hit
    prev_draw_cube,     \* draw_cube before the latest drag update, when the call
                        \* before it was a drag update too; None otherwise
    voxel_manager,      \* Renderer.voxel_manager : [extent, cubes]
    vm_call,            \* the most recent VoxelManager call: [op, oob]
    vm_ret,             \* what that call returned: [status, value]
    snap_in,            \* argument of a get_grid_pos call
    snap_out,           \* Option: its result
    box_a,              \* receiver of a containing_cube call
    box_b,              \* its argument
    box_ab,             \* Option: box_a.containing_cube(box_b)
    box_ba,             \* Option: box_b.containing_cube(box_a)
    cuboid_arg,         \* argument of a generate_cursor_vertices call
    cursor_mesh,        \* Option: its result [vertices, indices]
    meshes_in,          \* argument of a generate_mesh_vertices call
    mesh_out            \* Option: its outcome [status, vertices, indices]

renderer_vars ==
    <<render_cursor, cursor_cube, draw_cube, cursor_vertex_buf, frame,
      last_call, last_update, end_cube, drag_anchor, prev_draw_cube>>

grid_vars == <<voxel_manager, vm_call, vm_ret>>

snap_vars == <<snap_in, snap_out>>

box_vars == <<box_a, box_b, box_ab, box_ba>>

cursor_vars == <<cuboid_arg, cursor_mesh>>

mesh_vars == <<meshes_in, mesh_out>>

vars == <<renderer_vars, grid_vars, snap_vars, box_vars, cursor_vars, mesh_vars>>

(***************************************************************************)
(* Renderer::init (lines 370-376, 500-505): the cursor cuboid on the XY    *)
(* plane at the origin, no rectangle, an empty voxel grid.                 *)
(***************************************************************************)
Renderer_init(mesh_count) ==
    /\ voxel_manager = VoxelManager_new(mesh_count)
    /\ vm_call = [op |-> "new", oob |-> FALSE]
    /\ vm_ret = Ok(<<>>)
    /\ cursor_cube = Cuboid_new(Vector3_new(0, 0, 0),
                                VAdd(VAdd(XY_PLANE.left, XY_PLANE.down), XY_PLANE.normal),
                                HALF_ALPHA_RED)
    /\ cursor_vertex_buf = Cuboid_vertices(cursor_cube)
    /\ draw_cube = None
    /\ render_cursor = TRUE
    /\ frame = <<>>
    /\ last_call = "init"
    /\ last_update = None
    /\ end_cube = None
    /\ drag_anchor = None
    /\ prev_draw_cube = None

\* the extent the renderer's grid is created with when the grid is not under study
DefaultExtent == CHOOSE e \in GridExtents : \A f \in GridExtents : f <= e

\* no get_grid_pos / containing_cube call is being examined
SnapIdle == snap_in = <<0, 0, 0>> /\ snap_out = None

BoxIdle ==
    /\ box_a = ScenarioAnchor
    /\ box_b = ScenarioEnd
    /\ box_ab = None
    /\ box_ba = None

CursorIdle ==
    /\ cuboid_arg = ScenarioAnchor
    /\ cursor_mesh = None
    /\ meshes_in = DEFAULT_MESH_COUNT
    /\ mesh_out = None

Init == Renderer_init(DefaultExtent) /\ SnapIdle /\ BoxIdle /\ CursorIdle

(***************************************************************************)
(* Faulty variant of update_cursor_pos: the cuboid is placed at the raw    *)
(* hit position's floor on every axis.                                     *)
(***************************************************************************)
update_cursor_pos_floor_all(pos, plane) ==
    /\ IF plane # None
       THEN /\ cursor_cube' = Cuboid_new(<<floor(pos[1]), floor(pos[2]), floor(pos[3])>>,
                                         VAdd(VAdd(unwrap(plane).left, unwrap(plane).down),
                                              unwrap(plane).normal),
                                         HALF_ALPHA_RED)
            /\ cursor_vertex_buf' = Cuboid_vertices(cursor_cube')
            /\ render_cursor' = TRUE
       ELSE /\ render_cursor' = FALSE
            /\ UNCHANGED <<cursor_cube, cursor_vertex_buf>>
    /\ last_call' = "update_cursor_pos"
    /\ last_update' = Some([pos |-> pos, plane |-> plane])
    /\ prev_draw_cube' = None
    /\ UNCHANGED <<draw_cube, frame, end_cube, drag_anchor>>

(***************************************************************************)
(* Renderer::update_cursor_pos (lines 528-549).                            *)
(***************************************************************************)
update_cursor_pos(pos, plane) ==
    /\ IF plane # None
       THEN /\ cursor_cube' = Cuboid_new(get_grid_pos(pos),
                                         VAdd(VAdd(unwrap(plane).left, unwrap(plane).down),
                                              unwrap(plane).normal),
                                         HALF_ALPHA_RED)
            /\ cursor_vertex_buf' = Cuboid_vertices(cursor_cube')
            /\ render_cursor' = TRUE
       ELSE /\ render_cursor' = FALSE
            /\ UNCHANGED <<cursor_cube, cursor_vertex_buf>>
    /\ last_call' = "update_cursor_pos"
    /\ last_update' = Some([pos |-> pos, plane |-> plane])
    /\ prev_draw_cube' = None
    /\ UNCHANGED <<draw_cube, frame, end_cube, drag_anchor>>

(***************************************************************************)
(* Faulty variant of update_draw_rectangle: the rectangle grows from the   *)
(* previous rectangle instead of the cursor cube.                          *)
(***************************************************************************)
update_draw_rectangle_accumulating(pos, plane) ==
    /\ IF plane # None
       THEN /\ end_cube' = Some(Cuboid_new(get_grid_pos(pos),
                                           VAdd(VAdd(unwrap(plane).left, unwrap(plane).down),
                                                unwrap(plane).normal),
                                           HALF_ALPHA_RED))
            /\ drag_anchor' = Some(cursor_cube)
            /\ draw_cube' = Some(containing_cube(IF draw_cube # None THEN unwrap(draw_cube)
                                                                     ELSE cursor_cube,
                                                 unwrap(end_cube')))
            /\ cursor_vertex_buf' = Cuboid_vertices(unwrap(draw_cube'))
            /\ render_cursor' = TRUE
       ELSE /\ render_cursor' = FALSE
            /\ UNCHANGED <<draw_cube, cursor_vertex_buf, end_cube, drag_anchor>>
    /\ last_call' = "update_draw_rectangle"
    /\ last_update' = Some([pos |-> pos, plane |-> plane])
    /\ prev_draw_cube' = IF last_call = "update_draw_rectangle" THEN draw_cube ELSE None
    /\ UNCHANGED <<cursor_cube, frame>>

(***************************************************************************)
(* Faulty variant of update_draw_rectangle: the vertex batch is filled     *)
(* from the end cube instead of the containing cube.                       *)
(***************************************************************************)
update_draw_rectangle_end_vertices(pos, plane) ==
    /\ IF plane # None
       THEN /\ end_cube' = Some(Cuboid_new(get_grid_pos(pos),
                                           VAdd(VAdd(unwrap(plane).left, unwrap(plane).down),
                                                unwrap(plane).normal),
                                           HALF_ALPHA_RED))
            /\ drag_anchor' = Some(cursor_cube)
            /\ draw_cube' = Some(containing_cube(cursor_cube, unwrap(end_cube')))
            /\ cursor_vertex_buf' = Cuboid_vertices(unwrap(end_cube'))
            /\ render_cursor' = TRUE
       ELSE /\ render_cursor' = FALSE
            /\ UNCHANGED <<draw_cube, cursor_vertex_buf, end_cube, drag_anchor>>
    /\ last_call' = "update_draw_rectangle"
    /\ last_update' = Some([pos |-> pos, plane |-> plane])
    /\ prev_draw_cube' = IF last_call = "update_draw_rectangle" THEN draw_cube ELSE None
    /\ UNCHANGED <<cursor_cube, frame>>

(***************************************************************************)
(* Faulty variant of update_draw_rectangle: a miss also discards the       *)
(* rectangle.                                                              *)
(***************************************************************************)
update_draw_rectangle_miss_clears(pos, plane) ==
    /\ IF plane # None
       THEN /\ end_cube' = Some(Cuboid_new(get_grid_pos(pos),
                                           VAdd(VAdd(unwrap(plane).left, unwrap(plane).down),
                                                unwrap(plane).normal),
                                           HALF_ALPHA_RED))
            /\ drag_anchor' = Some(cursor_cube)
            /\ draw_cube' = Some(containing_cube(cursor_cube, unwrap(end_cube')))
            /\ cursor_vertex_buf' = Cuboid_vertices(unwrap(draw_cube'))
            /\ render_cursor' = TRUE
       ELSE /\ render_cursor' = FALSE
            /\ draw_cube' = None
            /\ UNCHANGED <<cursor_vertex_buf, end_cube, drag_anchor>>
    /\ last_call' = "update_draw_rectangle"
    /\ last_update' = Some([pos |-> pos, plane |-> plane])
    /\ prev_draw_cube' = IF last_call = "update_draw_rectangle" THEN draw_cube ELSE None
    /\ UNCHANGED <<cursor_cube, frame>>

(***************************************************************************)
(* Faulty variant of update_draw_rectangle: the cursor cube follows the    *)
(* drag end.                                                               *)
(***************************************************************************)
update_draw_rectangle_moves_anchor(pos, plane) ==
    /\ IF plane # None
       THEN /\ end_cube' = Some(Cuboid_new(get_grid_pos(pos),
                                           VAdd(VAdd(unwrap(plane).left, unwrap(plane).down),
                                                unwrap(plane).normal),
                                           HALF_ALPHA_RED))
            /\ drag_anchor' = Some(cursor_cube)
            /\ draw_cube' = Some(containing_cube(cursor_cube, unwrap(end_cube')))
            /\ cursor_vertex_buf' = Cuboid_vertices(unwrap(draw_cube'))
            /\ cursor_cube' = unwrap(end_cube')
            /\ render_cursor' = TRUE
       ELSE /\ render_cursor' = FALSE
            /\ UNCHANGED <<cursor_cube, draw_cube, cursor_vertex_buf, end_cube, drag_anchor>>
    /\ last_call' = "update_draw_rectangle"
    /\ last_update' = Some([pos |-> pos, plane |-> plane])
    /\ prev_draw_cube' = IF last_call = "update_draw_rectangle" THEN draw_cube ELSE None
    /\ UNCHANGED frame

(***************************************************************************)
(* Renderer::update_draw_rectangle (lines 551-574).                        *)
(***************************************************************************)
update_draw_rectangle(pos, plane) ==
    /\ IF plane # None
       THEN /\ end_cube' = Some(Cuboid_new(get_grid_pos(pos),
                                           VAdd(VAdd(unwrap(plane).left, unwrap(plane).down),
                                                unwrap(plane).normal),
                                           HALF_ALPHA_RED))
            /\ drag_anchor' = Some(cursor_cube)
            /\ draw_cube' = Some(containing_cube(cursor_cube, unwrap(end_cube')))
            /\ cursor_vertex_buf' = Cuboid_vertices(unwrap(draw_cube'))
            /\ render_cursor' = TRUE
       ELSE /\ render_cursor' = FALSE
            /\ UNCHANGED <<draw_cube, cursor_vertex_buf, end_cube, drag_anchor>>
    /\ last_call' = "update_draw_rectangle"
    /\ last_update' = Some([pos |-> pos, plane |-> plane])
    /\ prev_draw_cube' = IF last_call = "update_draw_rectangle" THEN draw_cube ELSE None
    /\ UNCHANGED <<cursor_cube, frame>>

(***************************************************************************)
(* Faulty variant of render: the cursor pipeline is drawn unconditionally. *)
(***************************************************************************)
render_always_cursor ==
    /\ frame' = <<"mesh_pipeline", "cursor_pipeline">>
    /\ last_call' = "render"
    /\ prev_draw_cube' = None
    /\ UNCHANGED <<render_cursor, cursor_cube, draw_cube, cursor_vertex_buf,
                   last_update, end_cube, drag_anchor>>

(***************************************************************************)
(* Renderer::render (lines 616-654): the mesh pipeline is always drawn,    *)
(* the cursor pipeline only when render_cursor is set.                     *)
(***************************************************************************)
render ==
    /\ frame' = IF render_cursor
                THEN <<"mesh_pipeline", "cursor_pipeline">>
                ELSE <<"mesh_pipeline">>
    /\ last_call' = "render"
    /\ prev_draw_cube' = None
    /\ UNCHANGED <<render_cursor, cursor_cube, draw_cube, cursor_vertex_buf,
                   last_update, end_cube, drag_anchor>>

UpdateCursor ==
    /\ \E pos \in HitPositions : \E plane \in PlaneArgs :
            update_cursor_pos(pos, plane)
    /\ UNCHANGED <<grid_vars, snap_vars, box_vars, cursor_vars, mesh_vars>>

UpdateDrawRectangle ==
    /\ \E pos \in HitPositions : \E plane \in PlaneArgs :
            update_draw_rectangle(pos, plane)
    /\ UNCHANGED <<grid_vars, snap_vars, box_vars, cursor_vars, mesh_vars>>

Render ==
    /\ render
    /\ UNCHANGED <<grid_vars, snap_vars, box_vars, cursor_vars, mesh_vars>>

Next ==
    \/ UpdateCursor
    \/ UpdateDrawRectangle
    \/ Render

Spec == Init /\ [][Next]_vars

(***************************************************************************)
(* The voxel grid on its own: a grid of any extent of GridExtents, and     *)
(* set / clear / get / vertices calls with any index, in or out of range.  *)
(***************************************************************************)
\* the index lies in [0, extent) on every axis
InRange(extent, x, y, z) ==
    /\ 0 <= x /\ x < extent
    /\ 0 <= y /\ y < extent
    /\ 0 <= z /\ z < extent

InitGrid ==
    /\ \E extent \in GridExtents : Renderer_init(extent)
    /\ SnapIdle
    /\ BoxIdle
    /\ CursorIdle

VmSet ==
    /\ \E x \in Indices, y \in Indices, z \in Indices, color \in VoxelColors :
            LET r == VoxelManager_set(voxel_manager, x, y, z, color)
            IN  /\ present_count(r.vm) <= MaxPresent
                /\ voxel_manager' = r.vm
                /\ vm_ret' = r.ret
                /\ vm_call' = [op |-> "set", oob |-> ~InRange(voxel_manager.extent, x, y, z)]
    /\ UNCHANGED <<renderer_vars, snap_vars, box_vars, cursor_vars, mesh_vars>>

VmClear ==
    /\ \E x \in Indices, y \in Indices, z \in Indices :
            LET r == VoxelManager_clear(voxel_manager, x, y, z)
            IN  /\ voxel_manager' = r.vm
                /\ vm_ret' = r.ret
                /\ vm_call' = [op |-> "clear", oob |-> ~InRange(voxel_manager.extent, x, y, z)]
    /\ UNCHANGED <<renderer_vars, snap_vars, box_vars, cursor_vars, mesh_vars>>

VmGet ==
    /\ \E x \in Indices, y \in Indices, z \in Indices :
            LET r == VoxelManager_get(voxel_manager, x, y, z)
            IN  /\ voxel_manager' = r.vm
                /\ vm_ret' = r.ret
                /\ vm_call' = [op |-> "get", oob |-> ~InRange(voxel_manager.extent, x, y, z)]
    /\ UNCHANGED <<renderer_vars, snap_vars, box_vars, cursor_vars, mesh_vars>>

VmVertices ==
    /\ vm_ret' = Ok(VoxelManager_vertices(voxel_manager))
    /\ vm_call' = [op |-> "vertices", oob |-> FALSE]
    /\ UNCHANGED <<voxel_manager, renderer_vars, snap_vars, box_vars, cursor_vars, mesh_vars>>

NextGrid ==
    \/ VmSet
    \/ VmClear
    \/ VmGet
    \/ VmVertices

SpecGrid == InitGrid /\ [][NextGrid]_vars

(***************************************************************************)
(* get_grid_pos on its own: any position of the bounded input set.         *)
(***************************************************************************)
InitSnap ==
    /\ Renderer_init(DefaultExtent)
    /\ BoxIdle
    /\ CursorIdle
    /\ snap_in \in SnapInputs
    /\ snap_out = None

GetGridPos ==
    /\ snap_out = None
    /\ snap_out' = Some(get_grid_pos(snap_in))
    /\ UNCHANGED <<snap_in, renderer_vars, grid_vars, box_vars, cursor_vars, mesh_vars>>

NextSnap == GetGridPos

SpecSnap == InitSnap /\ [][NextSnap]_vars

(***************************************************************************)
(* containing_cube on its own: any pair of the bounded input set, applied  *)
(* in both orders.                                                         *)
(***************************************************************************)
InitBox ==
    /\ Renderer_init(DefaultExtent)
    /\ SnapIdle
    /\ \E pair \in BoxPairs : box_a = pair[1] /\ box_b = pair[2]
    /\ box_ab = None
    /\ box_ba = None
    /\ CursorIdle

ContainingCube ==
    /\ box_ab = None
    /\ box_ab' = Some(containing_cube(box_a, box_b))
    /\ box_ba' = Some(containing_cube(box_b, box_a))
    /\ UNCHANGED <<box_a, box_b, renderer_vars, grid_vars, snap_vars, cursor_vars, mesh_vars>>

NextBox == ContainingCube

SpecBox == InitBox /\ [][NextBox]_vars

(***************************************************************************)
(* generate_cursor_vertices on its own: any cuboid of the bounded input    *)
(* set, with positive, zero and negative extents components.               *)
(***************************************************************************)
InitCursorMesh ==
    /\ Renderer_init(DefaultExtent)
    /\ SnapIdle
    /\ BoxIdle
    /\ cuboid_arg \in ArgumentBoxes
    /\ cursor_mesh = None
    /\ meshes_in = DEFAULT_MESH_COUNT
    /\ mesh_out = None

GenerateCursorVertices ==
    /\ cursor_mesh = None
    /\ cursor_mesh' = Some(generate_cursor_vertices(cuboid_arg))
    /\ UNCHANGED <<cuboid_arg, renderer_vars, grid_vars, snap_vars, box_vars, mesh_vars>>

NextCursorMesh == GenerateCursorVertices

SpecCursorMesh == InitCursorMesh /\ [][NextCursorMesh]_vars

(***************************************************************************)
(* generate_mesh_vertices on its own: any mesh count of the bounded input  *)
(* set, in a build with or without overflow checks.                        *)
(***************************************************************************)
InitMesh ==
    /\ Renderer_init(DefaultExtent)
    /\ SnapIdle
    /\ BoxIdle
    /\ cuboid_arg = ScenarioAnchor
    /\ cursor_mesh = None
    /\ meshes_in \in MeshCounts
    /\ mesh_out = None

GenerateMeshVertices ==
    /\ mesh_out = None
    /\ \E overflow_checks \in BOOLEAN :
            mesh_out' = Some(generate_mesh_vertices(meshes_in, overflow_checks))
    /\ UNCHANGED <<meshes_in, renderer_vars, grid_vars, snap_vars, box_vars, cursor_vars>>

NextMesh == GenerateMeshVertices

SpecMesh == InitMesh /\ [][NextMesh]_vars

(***************************************************************************)
(* Independent characterisations used by the properties below.             *)
(***************************************************************************)
\* n is the greatest whole number not above x
IsFloorOf(n, x) == n % Scale = 0 /\ n <= x /\ x < n + Scale

\* n is the least whole number not below x
IsCeilOf(n, x) == n % Scale = 0 /\ n - Scale < x /\ x <= n

IsSnapOf(cell, pos) ==
    /\ IsFloorOf(cell[1], pos[1])
    /\ IsCeilOf(cell[2], pos[2])
    /\ IsCeilOf(cell[3], pos[3])

CornerSet(a, b) ==
    {corner_points(a)[k] : k \in 1..8} \cup {corner_points(b)[k] : k \in 1..8}

\* c is the minimal axis-aligned box enclosing the 16 corners of a and b
IsBoundsOf(c, a, b) ==
    LET corners == CornerSet(a, b)
    IN  \A i \in 1..3 :
            /\ c.extents[i] >= 0
            /\ \A p \in corners : c.origin[i] <= p[i] /\ p[i] <= c.origin[i] + c.extents[i]
            /\ \E p \in corners : p[i] = c.origin[i]
            /\ \E p \in corners : p[i] = c.origin[i] + c.extents[i]

PlaneSum(plane) ==
    <<plane.left[1] + plane.down[1] + plane.normal[1],
      plane.left[2] + plane.down[2] + plane.normal[2],
      plane.left[3] + plane.down[3] + plane.normal[3]>>

IsUpdate(call) == call \in {"update_cursor_pos", "update_draw_rectangle"}

LastPlane == unwrap(last_update).plane

LastPos == unwrap(last_update).pos

(***************************************************************************)
(* C1 (as stated): whenever the committed box draw_cube is present it is   *)
(* the bounding box of the current cursor_cube and the end box of the most *)
(* recent drag hit.                                                        *)
(***************************************************************************)
C1_CommittedBoundsCurrentCursor ==
    draw_cube # None => IsBoundsOf(unwrap(draw_cube), cursor_cube, unwrap(end_cube))

(***************************************************************************)
(* C1 (amended): whenever draw_cube is present it is the bounding box of   *)
(* the cursor cube as it stood at the most recent drag hit and that hit's  *)
(* end box; it is the bounding box of the current cursor cube as long as   *)
(* the cursor cube is still that anchor.                                   *)
(***************************************************************************)
C1_CommittedBoundsDragAnchor ==
    draw_cube # None =>
        /\ end_cube # None /\ drag_anchor # None
        /\ IsBoundsOf(unwrap(draw_cube), unwrap(drag_anchor), unwrap(end_cube))
        /\ unwrap(draw_cube).color = HALF_ALPHA_RED
        /\ (cursor_cube = unwrap(drag_anchor) =>
                IsBoundsOf(unwrap(draw_cube), cursor_cube, unwrap(end_cube)))

\* a rectangle was dragged and the cursor has moved since
C1_Witness ==
    /\ draw_cube # None
    /\ cursor_cube # unwrap(drag_anchor)
    /\ ~IsBoundsOf(unwrap(draw_cube), cursor_cube, unwrap(end_cube))

(***************************************************************************)
(* C2: if the most recent update carried no plane, render_cursor is false  *)
(* and a render() leaves the cursor pipeline undrawn; if it carried a      *)
(* plane, render_cursor is true and render() draws the cursor pipeline.    *)
(***************************************************************************)
C2_NoPlaneMeansNotRendered ==
    last_update # None =>
        /\ (LastPlane = None =>
                /\ render_cursor = FALSE
                /\ (last_call = "render" => frame = <<"mesh_pipeline">>))
        /\ (LastPlane # None =>
                /\ render_cursor = TRUE
                /\ (last_call = "render" => frame = <<"mesh_pipeline", "cursor_pipeline">>))

\* a frame rendered after a miss that followed a drag
C2_Witness ==
    /\ last_call = "render"
    /\ last_update # None
    /\ LastPlane = None
    /\ draw_cube # None
    /\ frame = <<"mesh_pipeline">>

(***************************************************************************)
(* C7: right after update_draw_rectangle with a hit, the end box has       *)
(* origin snap(pos) and extents left + down + normal, draw_cube is the     *)
(* cursor cube's containing cube with it, the vertex batch holds that      *)
(* cube's 24 vertices and rendering is enabled.                            *)
(***************************************************************************)
C7_DragHitCommitsContainingCube ==
    (last_call = "update_draw_rectangle" /\ LastPlane # None) =>
        /\ end_cube # None /\ draw_cube # None
        /\ IsSnapOf(unwrap(end_cube).origin, LastPos)
        /\ unwrap(end_cube).extents = PlaneSum(unwrap(LastPlane))
        /\ unwrap(end_cube).color = HALF_ALPHA_RED
        /\ draw_cube = Some(containing_cube(cursor_cube, unwrap(end_cube)))
        /\ IsBoundsOf(unwrap(draw_cube), cursor_cube, unwrap(end_cube))
        /\ Len(cursor_vertex_buf) = 24
        /\ cursor_vertex_buf = Cuboid_vertices(unwrap(draw_cube))
        /\ render_cursor = TRUE

\* a drag hit whose rectangle is larger than both the cursor and the end box
C7_Witness ==
    /\ last_call = "update_draw_rectangle"
    /\ LastPlane # None
    /\ unwrap(draw_cube).extents # cursor_cube.extents
    /\ unwrap(draw_cube).extents # unwrap(end_cube).extents
    /\ unwrap(end_cube).origin # cursor_cube.origin

(***************************************************************************)
(* C8: right after update_cursor_pos with a hit, cursor_cube has origin    *)
(* snap(pos), extents left + down + normal and the translucent red colour, *)
(* the vertex batch holds its 24 vertices and rendering is enabled.        *)
(***************************************************************************)
C8_CursorHitPlacesCursorCube ==
    (last_call = "update_cursor_pos" /\ LastPlane # None) =>
        /\ IsSnapOf(cursor_cube.origin, LastPos)
        /\ cursor_cube.extents = PlaneSum(unwrap(LastPlane))
        /\ cursor_cube.color = HALF_ALPHA_RED
        /\ Len(cursor_vertex_buf) = 24
        /\ cursor_vertex_buf = Cuboid_vertices(cursor_cube)
        /\ render_cursor = TRUE

\* a cursor hit at a fractional position, after a drag had filled the batch
C8_Witness ==
    /\ last_call = "update_cursor_pos"
    /\ LastPlane # None
    /\ LastPos # cursor_cube.origin
    /\ draw_cube # None

(***************************************************************************)
(* C9: an update without a plane, through either method, only clears       *)
(* render_cursor: cursor_cube, draw_cube and the vertex batch keep their   *)
(* values.                                                                 *)
(***************************************************************************)
C9_MissChangesOnlyVisibility ==
    [][(IsUpdate(last_call') /\ unwrap(last_update').plane = None) =>
            /\ render_cursor' = FALSE
            /\ UNCHANGED <<cursor_cube, draw_cube, cursor_vertex_buf, frame>>]_vars

\* a miss arriving while a dragged rectangle is shown
C9_Witness ==
    /\ IsUpdate(last_call)
    /\ LastPlane = None
    /\ draw_cube # None
    /\ cursor_vertex_buf = Cuboid_vertices(unwrap(draw_cube))
    /\ render_cursor = FALSE

(***************************************************************************)
(* C3: containing(a, b) is the minimal axis-aligned box enclosing all 16   *)
(* corners of a and b, whatever the signs of their extents: its origin is  *)
(* the componentwise minimum, its extents maximum minus minimum, never     *)
(* negative; (0,0,0)+(1,1,1) with (2,2,2)+(1,1,1) gives (0,0,0)+(3,3,3).   *)
(***************************************************************************)
C3_ContainingIsMinimalBounds ==
    /\ box_ab # None => IsBoundsOf(unwrap(box_ab), box_a, box_b)
    /\ (box_ab # None /\ box_a = ScenarioAnchor /\ box_b = ScenarioEnd) =>
          /\ unwrap(box_ab).origin = <<0, 0, 0>>
          /\ unwrap(box_ab).extents = <<3 * Scale, 3 * Scale, 3 * Scale>>

\* boxes with a negative and a zero extents component have been combined
C3_Witness ==
    /\ box_ab # None
    /\ box_a.extents[1] < 0 /\ box_a.extents[2] = 0
    /\ box_b.extents[3] < 0 /\ box_b.extents[1] > 0
    /\ box_b.origin # box_a.origin
    /\ unwrap(box_ab).extents[1] > 0

(***************************************************************************)
(* C4: get_grid_pos maps (x, y, z) to (floor x, ceil y, ceil z); e.g.      *)
(* (2.4, 1.1, 3.9) to (2, 2, 4), and whole coordinates to themselves.      *)
(***************************************************************************)
C4_SnapIsFloorCeilCeil ==
    snap_out # None =>
        /\ IsSnapOf(unwrap(snap_out), snap_in)
        /\ (snap_in = <<24, 11, 39>> => unwrap(snap_out) = <<20, 20, 40>>)
        /\ ((\A i \in 1..3 : snap_in[i] % Scale = 0) => unwrap(snap_out) = snap_in)

\* a position with negative fractional coordinates has been snapped
C4_Witness ==
    /\ snap_out # None
    /\ snap_in[1] < 0 /\ snap_in[1] % Scale # 0
    /\ snap_in[2] < 0 /\ snap_in[2] % Scale # 0
    /\ snap_in[3] > 0 /\ snap_in[3] % Scale # 0

(***************************************************************************)
(* C5: VoxelManager::vertices returns 24 vertices per present voxel and    *)
(* none for an empty slot: its length is 24 times the number of present    *)
(* voxels, and each present voxel at (x, y, z) contributes the 24 vertices *)
(* of the unit box at (x, y, z) in the voxel's colour.                     *)
(***************************************************************************)
Slots(vm) == (0..(vm.extent - 1)) \X (0..(vm.extent - 1)) \X (0..(vm.extent - 1))

PresentSlots(vm) == {idx \in Slots(vm) : vm.cubes[idx[1]][idx[2]][idx[3]] # None}

VoxelBox(vm, idx) ==
    [origin  |-> <<idx[1] * Scale, idx[2] * Scale, idx[3] * Scale>>,
     extents |-> <<Scale, Scale, Scale>>,
     color   |-> unwrap(vm.cubes[idx[1]][idx[2]][idx[3]]).color]

Scenario1Grid == VoxelManager_set(VoxelManager_new(4), 1, 2, 3, RED).vm

C5_VerticesPerPresentVoxel ==
    /\ vm_call.op = "vertices" =>
          LET data == vm_ret.value
              n    == Cardinality(PresentSlots(voxel_manager))
          IN  /\ vm_ret.status = "Ok"
              /\ Len(data) = 24 * n
              /\ \A idx \in PresentSlots(voxel_manager) :
                    \E r \in 0..(n - 1) :
                        \A i \in 1..24 :
                            data[24 * r + i] = Cuboid_vertices(VoxelBox(voxel_manager, idx))[i]
    /\ VoxelManager_vertices(Scenario1Grid) =
          Cuboid_vertices(Cuboid_new(<<1 * Scale, 2 * Scale, 3 * Scale>>,
                                     <<Scale, Scale, Scale>>, RED))

\* a grid of extent 2 holding two voxels of different colours has been meshed
C5_Witness ==
    /\ vm_call.op = "vertices"
    /\ voxel_manager.extent = 2
    /\ Cardinality(PresentSlots(voxel_manager)) = 2
    /\ Cardinality({VoxelBox(voxel_manager, idx).color : idx \in PresentSlots(voxel_manager)}) = 2
    /\ Len(vm_ret.value) = 48

(***************************************************************************)
(* C6: a set, clear or get whose index is outside [0, extent) on some axis *)
(* returns the OutOfBounds failure and leaves every slot of the grid as it *)
(* was; this holds again for any later call.                               *)
(***************************************************************************)
C6_OutOfBoundsRejected ==
    [][(vm_call'.op \in {"set", "clear", "get"} /\ vm_call'.oob) =>
            /\ vm_ret' = OutOfBounds
            /\ voxel_manager' = voxel_manager]_vars

\* an out-of-range set was rejected on a grid that holds a voxel
C6_Witness ==
    /\ vm_call.op = "set"
    /\ vm_call.oob
    /\ vm_ret = OutOfBounds
    /\ voxel_manager.extent = 2
    /\ PresentSlots(voxel_manager) # {}

FaceOrder ==
    << <<0, 1, 2, 3>>, <<1, 0, 4, 5>>, <<2, 1, 5, 6>>,
       <<3, 2, 6, 7>>, <<3, 0, 4, 7>>, <<4, 5, 6, 7>> >>

TrianglePattern == <<0, 1, 2, 2, 3, 0>>

C12_DragKeepsAnchorNoAccumulation ==
    [][last_call' = "update_draw_rectangle" =>
            /\ cursor_cube' = cursor_cube
            /\ (unwrap(last_update').plane # None =>
                    /\ drag_anchor' = Some(cursor_cube)
                    /\ IsSnapOf(unwrap(end_cube').origin, unwrap(last_update').pos)
                    /\ IsBoundsOf(unwrap(draw_cube'), cursor_cube, unwrap(end_cube'))
                    /\ ((last_call = "update_draw_rectangle" /\ LastPlane # None) =>
                            drag_anchor' = drag_anchor))]_vars

\* a second consecutive drag hit nearer the anchor: the committed box shrank
C12_Witness ==
    /\ last_call = "update_draw_rectangle"
    /\ LastPlane # None
    /\ prev_draw_cube # None
    /\ drag_anchor = Some(cursor_cube)
    /\ ~IsBoundsOf(unwrap(prev_draw_cube), cursor_cube, cursor_cube)
    /\ \A i \in 1..3 : unwrap(draw_cube).extents[i] <= unwrap(prev_draw_cube).extents[i]
    /\ \E i \in 1..3 : unwrap(draw_cube).extents[i] < unwrap(prev_draw_cube).extents[i]
    /\ \A i \in 1..3 : unwrap(prev_draw_cube).origin[i] <= unwrap(draw_cube).origin[i]

(***************************************************************************)
(* C13: for every mesh count n of u16, generate_mesh_vertices returns      *)
(* normally with 6 + 12n vertices and as many indices, the i-th index      *)
(* (counting from 0) being i, so that the indices are distinct and each    *)
(* names an existing vertex.                                               *)
(***************************************************************************)
C13_MeshIndicesAreIdentity ==
    mesh_out # None =>
        LET out == unwrap(mesh_out)
        IN  /\ out.status = "Ok"
            /\ Len(out.vertices) = 6 + 12 * meshes_in
            /\ Len(out.indices) = Len(out.vertices)
            /\ \A i \in 0..(Len(out.indices) - 1) : out.indices[i + 1] = i

====
